---- MODULE Spec2Model ----
(***************************************************************************)
(* A model of the two utilities of src/src/data_structures/d_linked_list.js *)
(*   - DLinkedList: a singly linked list of Node objects (head, size);      *)
(*   - SelectionSort: the selection-sort entry points and their helpers.    *)
(* The list is modelled on an explicit heap of nodes: the shape of the      *)
(* chain (acyclic, length = size) is a property of the heap, not assumed.   *)
(***************************************************************************)
EXTENDS Integers, Sequences, FiniteSets, TLC

\* ------------------------------------------------------------------ bounds

\* Most Node objects alive at once (add is not offered beyond it).
MaxNodes == 3

\* ------------------------------------------------------------ list: values

\* The null reference (Node.next of the last node, head of an empty list).
NULL == 0

NodeIds == 1..MaxNodes

\* Payloads handed to add/remove/contains.  "NaN" stands for the one
\* JavaScript value that is not strictly equal to itself.
Data == {"x", "NaN"}

\* What get() returns out of range (the JavaScript null).
NullSentinel == "null"

\* Indices handed to removeAt/get: some negative, all valid, some too large.
Indices == (0 - 1)..(MaxNodes + 2)

\* The payload argument of a call that takes none.
NoData == "-"

\* JavaScript's a === b on payloads.
StrictEq(a, b) == a = b /\ a # "NaN"

VARIABLES
    head,      \* DLinkedList.head: a node id or NULL
    heap,      \* the Node objects alive: node id -> [data, next]
    size,      \* DLinkedList.size
    op,        \* the method called last ("new" after construction)
    argData,   \* its payload argument (add, remove, contains)
    argIndex,  \* its index argument (removeAt, get)
    ret,       \* what it returned
    threw,     \* whether it raised a TypeError instead of returning
    pre,       \* head, heap and size when it was called
    snap       \* the array the caller kept from an earlier toArray() call

listVars == <<head, heap, size, op, argData, argIndex, ret, threw, pre, snap>>

VARIABLES
    sEntry,    \* the entry point called ("none": no call)
    sInput,    \* the caller's array, as it is now
    sOrig,     \* the caller's array as it was when the call began
    sBy,       \* the sortBy argument
    sAsc,      \* the ascending argument
    sArr,      \* the working array (sortedArray, sortedData, sortedStudents)
    sAlias,    \* the working array is the caller's array object itself
    si,        \* the outer loop's i
    sj,        \* the inner loop's j
    sExt,      \* extremeIndex
    spc,       \* where the call is: "map", "copy", "outer", "inner", "swap",
               \* "done" (returned), "threw" (ended by a TypeError)
    sPass,     \* 1: the call on the caller's input; 2: the call on its result
    sStats,    \* what getSortingStats(input, result) returned, once called
    sMoved,    \* the records a swap has moved back from the boundary position
    sNull,     \* the array argument is null (sInput is then not read)
    sThrew,    \* the call raised a TypeError instead of returning
    sCmp,      \* how often the inner loop's body has compared two elements
    sSwaps     \* how often the call has swapped two elements

sortVars ==
    <<sEntry, sInput, sOrig, sBy, sAsc, sArr, sAlias, si, sj, sExt, spc,
      sPass, sStats, sMoved, sNull, sThrew, sCmp, sSwaps>>

VARIABLES
    gMark,     \* the argument of a calculateGrade call
    gGrade     \* what it returned ("" before the call)

gradeVars == <<gMark, gGrade>>

VARIABLES
    cFn,       \* the helper called on its own: "getValue", "compare" ("none")
    cArgA,     \* its first argument
    cArgB,     \* its second argument
    cRet,      \* what it returned
    cDone      \* whether it has returned

callVars == <<cFn, cArgA, cArgB, cRet, cDone>>

vars == <<listVars, sortVars, gradeVars, callVars>>

\* ----------------------------------------------------------- list: helpers

\* new Node(data): data set, next null.
Node(data) == [data |-> data, next |-> NULL]

\* The nodes visited by `while (current) current = current.next` from n, as
\* a sequence of ids; fuel stops the walk of a cyclic chain.
RECURSIVE Chain(_, _, _)
Chain(h, n, fuel) ==
    IF n = NULL \/ fuel = 0 THEN <<>>
    ELSE <<n>> \o Chain(h, h[n].next, fuel - 1)

Fuel(h) == Cardinality(DOMAIN h) + 1

\* The chain from hd reaches null (within the number of nodes alive).
Acyclic(h, hd) == Len(Chain(h, hd, Fuel(h))) <= Cardinality(DOMAIN h)

\* toArray(): the payloads pushed head to tail.
ToArray(h, hd) ==
    LET c == Chain(h, hd, Fuel(h)) IN [k \in 1..Len(c) |-> h[c[k]].data]

\* A bug: the loop never advances, so the new node is linked after the head.
LastNodeNoWalk(h, cur, fuel) == cur

\* add's loop `while (current.next) current = current.next`: the last node.
RECURSIVE LastNode(_, _, _)
LastNode(h, cur, fuel) ==
    IF h[cur].next = NULL \/ fuel = 0 THEN cur
    ELSE LastNode(h, h[cur].next, fuel - 1)

\* A bug: the loop stops at once, whatever the next node holds.
BeforeMatchNoScan(h, cur, data, fuel) == cur

\* remove's loop `while (current.next && current.next.data !== data)`: the
\* node before the first match, or the last node.
RECURSIVE BeforeMatch(_, _, _, _)
BeforeMatch(h, cur, data, fuel) ==
    IF h[cur].next # NULL /\ ~StrictEq(h[h[cur].next].data, data) /\ fuel > 0
    THEN BeforeMatch(h, h[cur].next, data, fuel - 1)
    ELSE cur

\* `for (i = 0; i < k; i++) current = current.next`: NULL when the walk
\* dereferences null (a TypeError in the code).
RECURSIVE Advance(_, _, _)
Advance(h, cur, k) ==
    IF k <= 0 THEN cur
    ELSE IF cur = NULL THEN NULL
    ELSE Advance(h, h[cur].next, k - 1)

\* A bug: the scan starts at the node after the head.
ContainsSkipsHead(h, hd, data) ==
    LET c == Chain(h, hd, Fuel(h)) IN
    \E k \in 2..Len(c) : StrictEq(h[c[k]].data, data)

\* contains's loop: some visited node's data === data.
Contains(h, hd, data) ==
    LET c == Chain(h, hd, Fuel(h)) IN
    \E k \in 1..Len(c) : StrictEq(h[c[k]].data, data)

\* Nodes no longer reachable from the head are garbage.  Node ids carry no
\* meaning, so the surviving nodes are renamed 1, 2, ... in chain order; a
\* chain that does not end is left as it is.
Collect(h, hd) ==
    LET c == Chain(h, hd, Fuel(h)) IN
    IF Len(c) > Cardinality(DOMAIN h) THEN [head |-> hd, heap |-> h]
    ELSE [head |-> IF Len(c) = 0 THEN NULL ELSE 1,
          heap |-> [k \in 1..Len(c) |->
                       [data |-> h[c[k]].data,
                        next |-> IF h[c[k]].next = NULL THEN NULL ELSE k + 1]]]

\* The id of a fresh Node object.
FreshId(h) ==
    CHOOSE n \in NodeIds :
        n \notin DOMAIN h /\ \A m \in NodeIds : m < n => m \in DOMAIN h

PreState == [head |-> head, heap |-> heap, size |-> size]

\* --------------------------------------------------------- list: operations

\* constructor(): head = null, size = 0.
ListInit ==
    /\ head = NULL
    /\ heap = <<>>
    /\ size = 0
    /\ op = "new"
    /\ argData = NoData
    /\ argIndex = 0
    /\ ret = FALSE
    /\ threw = FALSE
    /\ pre = [head |-> NULL, heap |-> <<>>, size |-> 0]
    /\ snap = <<>>

\* The heap after add(data) has linked the new node n.
AddLink(h, hd, n, data) ==
    LET h1 == [k \in DOMAIN h \cup {n} |-> IF k = n THEN Node(data) ELSE h[k]] IN
    IF hd = NULL THEN h1
    ELSE [h1 EXCEPT ![LastNode(h, hd, Fuel(h))].next = n]

add(data) ==
    /\ Cardinality(DOMAIN heap) < MaxNodes
    /\ LET n == FreshId(heap) IN
       /\ heap' = AddLink(heap, head, n, data)
       /\ head' = (IF head = NULL THEN n ELSE head)
    /\ size' = size + 1
    /\ op' = "add" /\ argData' = data /\ argIndex' = 0
    /\ ret' = TRUE /\ threw' = FALSE
    /\ pre' = PreState
    /\ UNCHANGED <<snap, sortVars, gradeVars, callVars>>

\* A bug: removing the head forgets size--.
RemoveResultKeepsSize(h, hd, sz, data) ==
    IF hd = NULL
    THEN [head |-> hd, heap |-> h, size |-> sz, ret |-> FALSE]
    ELSE IF StrictEq(h[hd].data, data)
    THEN [head |-> h[hd].next, heap |-> h, size |-> sz, ret |-> TRUE]
    ELSE LET cur == BeforeMatch(h, hd, data, Fuel(h)) IN
         IF h[cur].next # NULL
         THEN [head |-> hd,
               heap |-> [h EXCEPT ![cur].next = h[h[cur].next].next],
               size |-> sz - 1, ret |-> TRUE]
         ELSE [head |-> hd, heap |-> h, size |-> sz, ret |-> FALSE]

\* remove(data): [head, heap, size, ret] after the call.
RemoveResult(h, hd, sz, data) ==
    IF hd = NULL
    THEN [head |-> hd, heap |-> h, size |-> sz, ret |-> FALSE]
    ELSE IF StrictEq(h[hd].data, data)
    THEN [head |-> h[hd].next, heap |-> h, size |-> sz - 1, ret |-> TRUE]
    ELSE LET cur == BeforeMatch(h, hd, data, Fuel(h)) IN
         IF h[cur].next # NULL
         THEN [head |-> hd,
               heap |-> [h EXCEPT ![cur].next = h[h[cur].next].next],
               size |-> sz - 1, ret |-> TRUE]
         ELSE [head |-> hd, heap |-> h, size |-> sz, ret |-> FALSE]

remove(data) ==
    /\ LET r == RemoveResult(heap, head, size, data) IN
       /\ head' = Collect(r.heap, r.head).head
       /\ heap' = Collect(r.heap, r.head).heap
       /\ size' = r.size
       /\ ret' = r.ret
    /\ op' = "remove" /\ argData' = data /\ argIndex' = 0 /\ threw' = FALSE
    /\ pre' = PreState
    /\ UNCHANGED <<snap, sortVars, gradeVars, callVars>>

\* A bug: the range test is `index > this.size`.
RemoveAtResultLooseRange(h, hd, sz, index) ==
    LET same == [head |-> hd, heap |-> h, size |-> sz, ret |-> FALSE, threw |-> FALSE]
        cur == Advance(h, hd, index - 1)
    IN
    IF index < 0 \/ index > sz THEN same
    ELSE IF index = 0
    THEN IF hd = NULL THEN [same EXCEPT !.threw = TRUE]
         ELSE [head |-> h[hd].next, heap |-> h, size |-> sz - 1,
               ret |-> TRUE, threw |-> FALSE]
    ELSE IF cur = NULL THEN [same EXCEPT !.threw = TRUE]
    ELSE IF h[cur].next = NULL THEN [same EXCEPT !.threw = TRUE]
    ELSE [head |-> hd,
          heap |-> [h EXCEPT ![cur].next = h[h[cur].next].next],
          size |-> sz - 1, ret |-> TRUE, threw |-> FALSE]

\* A bug: the walk stops at the node to remove, not at the one before it
\* (`i < index`), so the node after it is unlinked.
RemoveAtResultWalksTooFar(h, hd, sz, index) ==
    LET same == [head |-> hd, heap |-> h, size |-> sz, ret |-> FALSE, threw |-> FALSE]
        cur == Advance(h, hd, index)
    IN
    IF index < 0 \/ index >= sz THEN same
    ELSE IF index = 0
    THEN IF hd = NULL THEN [same EXCEPT !.threw = TRUE]
         ELSE [head |-> h[hd].next, heap |-> h, size |-> sz - 1,
               ret |-> TRUE, threw |-> FALSE]
    ELSE IF cur = NULL THEN [same EXCEPT !.threw = TRUE]
    ELSE IF h[cur].next = NULL THEN [same EXCEPT !.threw = TRUE]
    ELSE [head |-> hd,
          heap |-> [h EXCEPT ![cur].next = h[h[cur].next].next],
          size |-> sz - 1, ret |-> TRUE, threw |-> FALSE]

\* removeAt(index): [head, heap, size, ret, threw] after the call.  threw
\* marks a dereference of null (this.head.next, current.next of null).
RemoveAtResult(h, hd, sz, index) ==
    LET same == [head |-> hd, heap |-> h, size |-> sz, ret |-> FALSE, threw |-> FALSE]
        cur == Advance(h, hd, index - 1)
    IN
    IF index < 0 \/ index >= sz THEN same
    ELSE IF index = 0
    THEN IF hd = NULL THEN [same EXCEPT !.threw = TRUE]
         ELSE [head |-> h[hd].next, heap |-> h, size |-> sz - 1,
               ret |-> TRUE, threw |-> FALSE]
    ELSE IF cur = NULL THEN [same EXCEPT !.threw = TRUE]
    ELSE IF h[cur].next = NULL THEN [same EXCEPT !.threw = TRUE]
    ELSE [head |-> hd,
          heap |-> [h EXCEPT ![cur].next = h[h[cur].next].next],
          size |-> sz - 1, ret |-> TRUE, threw |-> FALSE]

removeAt(index) ==
    /\ LET r == RemoveAtResult(heap, head, size, index) IN
       /\ head' = Collect(r.heap, r.head).head
       /\ heap' = Collect(r.heap, r.head).heap
       /\ size' = r.size
       /\ ret' = r.ret
       /\ threw' = r.threw
    /\ op' = "removeAt" /\ argIndex' = index /\ argData' = NoData
    /\ pre' = PreState
    /\ UNCHANGED <<snap, sortVars, gradeVars, callVars>>

\* A bug: the loop runs once too often (`i <= index`).
GetResultOneTooFar(h, hd, sz, index) ==
    LET cur == Advance(h, hd, index + 1) IN
    IF index < 0 \/ index >= sz THEN [ret |-> NullSentinel, threw |-> FALSE]
    ELSE IF cur = NULL THEN [ret |-> NullSentinel, threw |-> TRUE]
    ELSE [ret |-> h[cur].data, threw |-> FALSE]

\* get(index): [ret, threw]; threw marks current.data of null.
GetResult(h, hd, sz, index) ==
    LET cur == Advance(h, hd, index) IN
    IF index < 0 \/ index >= sz THEN [ret |-> NullSentinel, threw |-> FALSE]
    ELSE IF cur = NULL THEN [ret |-> NullSentinel, threw |-> TRUE]
    ELSE [ret |-> h[cur].data, threw |-> FALSE]

get(index) ==
    /\ LET r == GetResult(heap, head, size, index) IN
       /\ ret' = r.ret
       /\ threw' = r.threw
    /\ op' = "get" /\ argIndex' = index /\ argData' = NoData
    /\ pre' = PreState
    /\ UNCHANGED <<head, heap, size, snap, sortVars, gradeVars, callVars>>

contains(data) ==
    /\ ret' = Contains(heap, head, data)
    /\ op' = "contains" /\ argData' = data /\ argIndex' = 0 /\ threw' = FALSE
    /\ pre' = PreState
    /\ UNCHANGED <<head, heap, size, snap, sortVars, gradeVars, callVars>>

getSize ==
    /\ ret' = size
    /\ op' = "getSize" /\ argData' = NoData /\ argIndex' = 0 /\ threw' = FALSE
    /\ pre' = PreState
    /\ UNCHANGED <<head, heap, size, snap, sortVars, gradeVars, callVars>>

isEmpty ==
    /\ ret' = (size = 0)
    /\ op' = "isEmpty" /\ argData' = NoData /\ argIndex' = 0 /\ threw' = FALSE
    /\ pre' = PreState
    /\ UNCHANGED <<head, heap, size, snap, sortVars, gradeVars, callVars>>

\* A bug: the traversal moves this.head itself, emptying the list.
toArrayDrains(keep) ==
    /\ ret' = ToArray(heap, head)
    /\ snap' = IF keep THEN ToArray(heap, head) ELSE snap
    /\ head' = NULL
    /\ op' = "toArray" /\ argData' = NoData /\ argIndex' = 0 /\ threw' = FALSE
    /\ pre' = PreState
    /\ UNCHANGED <<heap, size, sortVars, gradeVars, callVars>>

\* toArray(): a new array; the caller keeps it (keep) or only looks at it.
toArray(keep) ==
    /\ ret' = ToArray(heap, head)
    /\ snap' = IF keep THEN ToArray(heap, head) ELSE snap
    /\ op' = "toArray" /\ argData' = NoData /\ argIndex' = 0 /\ threw' = FALSE
    /\ pre' = PreState
    /\ UNCHANGED <<head, heap, size, sortVars, gradeVars, callVars>>

\* A bug: clear resets the count and keeps the chain.
clearKeepsHead ==
    /\ size' = 0
    /\ op' = "clear" /\ argData' = NoData /\ argIndex' = 0
    /\ ret' = FALSE /\ threw' = FALSE
    /\ pre' = PreState
    /\ UNCHANGED <<head, heap, snap, sortVars, gradeVars, callVars>>

\* clear(): head = null, size = 0; every node becomes garbage.
clear ==
    /\ head' = NULL
    /\ heap' = Collect(heap, NULL).heap
    /\ size' = 0
    /\ op' = "clear" /\ argData' = NoData /\ argIndex' = 0
    /\ ret' = FALSE /\ threw' = FALSE
    /\ pre' = PreState
    /\ UNCHANGED <<snap, sortVars, gradeVars, callVars>>

ListNext ==
    \/ \E d \in Data : add(d)
    \/ \E d \in Data : remove(d)
    \/ \E i \in Indices : removeAt(i)
    \/ \E i \in Indices : get(i)
    \/ \E d \in Data : contains(d)
    \/ getSize
    \/ isEmpty
    \/ \E k \in BOOLEAN : toArray(k)
    \/ clear

\* ------------------------------------------------------------ sort: values

\* Longest array handed to a sort entry point.
MaxLen == 3

\* JavaScript values: numbers, null, undefined, objects (a function from
\* property names to values) and strings (the sequence of their characters;
\* the grade letters, which nothing takes apart, are kept whole).
Num(n) == [t |-> "num", n |-> n]
JsNull == [t |-> "null"]
Undef == [t |-> "undef"]
Obj(fields) == [t |-> "obj", f |-> fields]
Str(chars) == [t |-> "str", s |-> chars]

\* The numbers of the arrays sorted: marks with three different grades.
NumVals == {0, 55, 90}

\* The array of the test script's first test.
TestNumbers == <<Num(64), Num(34), Num(25), Num(12), Num(22), Num(11), Num(90)>>

\* What a record's mark may be: a number, null, or missing (undefined).
MarkVals == {Num(n) : n \in NumVals} \cup {JsNull, Undef}

\* { index: k, mark: m }; a mark of undefined is a record without the field.
Student(k, m) ==
    IF m = Undef THEN Obj([index |-> Num(k)])
    ELSE Obj([index |-> Num(k), mark |-> m])

\* The arrays handed to sortNumericArray, and to the two record sorts.
NumericInputs ==
    UNION {[1..n -> {Num(v) : v \in NumVals}] : n \in 0..MaxLen}
        \cup {TestNumbers}

RecordInputs ==
    UNION {{[k \in 1..n |-> Student(k, m[k])] : m \in [1..n -> MarkVals]} :
           n \in 0..MaxLen}

\* Names of tests as the summary's table has them ('Test 1', 'Test 2'), and
\* one with a number of two digits: 'Test 1', 'Test 10', 'Test 2'.
TestNames ==
    {Str(<<"T", "e", "s", "t", " ", "1">>),
     Str(<<"T", "e", "s", "t", " ", "1", "0">>),
     Str(<<"T", "e", "s", "t", " ", "2">>)}

\* { index: k, name: s }.
Named(k, name) == Obj([index |-> Num(k), name |-> name])

\* The arrays of records with a string field, handed to sortTableData.
NameInputs ==
    UNION {{[k \in 1..n |-> Named(k, m[k])] : m \in [1..n -> TestNames]} :
           n \in 0..MaxLen}

\* A property path is a string, written as its pieces: property names and
\* the dots between them ('student.name' is <<"student", ".", "name">>).
MarkPath == Str(<<"mark">>)
NamePath == Str(<<"name">>)
Paths == {MarkPath}

Entries ==
    {"sortNumericArray", "sortTableData", "sortStudentsByMarks",
     "sortStudentsWithGrades"}

\* The entry points that return the caller's own elements, reordered.
PlainEntries == {"sortNumericArray", "sortTableData", "sortStudentsByMarks"}

\* The marks handed to calculateGrade: 0 .. MaxMark.
MaxMark == 100

GradeMarks == {Num(n) : n \in 0..MaxMark}

\* The objects and the paths handed to getValue on its own: records with a
\* mark, with a nested student, with neither; a number; null and undefined.
ValueObjs ==
    {JsNull, Undef, Num(0), Obj(<<>>),
     Obj([mark |-> Num(55)]), Obj([mark |-> JsNull]),
     Obj([student |-> Obj([name |-> Str(<<"T", "e", "s", "t">>)])]),
     Obj([student |-> Obj(<<>>)]),
     Obj([student |-> JsNull]),
     Obj([student |-> Num(55)])}

ValuePaths ==
    {JsNull, Undef, Str(<<>>), MarkPath, Str(<<"student">>),
     Str(<<"student", ".", "name">>),
     Str(<<"student", ".", "name", ".", "first">>),
     Str(<<"mark", ".">>)}

\* The values handed to compare on its own.
CompareVals ==
    {Num(n) : n \in NumVals} \cup {JsNull, Undef} \cup TestNames
        \cup {Str(<<"t", "e", "s", "t", " ", "1">>)}

\* sStats before getSortingStats is called.
NoStats == [algorithm |-> "none"]

\* ----------------------------------------------------------- sort: helpers

\* !v for the values of the model.
Falsy(v) ==
    \/ v.t \in {"null", "undef"}
    \/ (v.t = "num" /\ v.n = 0)
    \/ (v.t = "str" /\ v.s = <<>>)

\* What dereferencing null or undefined gives: a TypeError is raised.
TypeError == [t |-> "TypeError"]

\* value[prop]: undefined when the property is missing; reading a property
\* of null or undefined raises a TypeError.
GetProp(v, prop) ==
    IF v.t \in {"null", "undef", "TypeError"} THEN TypeError
    ELSE IF v.t = "obj" /\ prop \in DOMAIN v.f THEN v.f[prop]
    ELSE Undef

\* property.split('.'): the names between the dots, '' where two dots, or
\* a dot and an end of the string, meet.  cur is the name read since the
\* last dot.
RECURSIVE SplitLoop(_, _, _)
SplitLoop(pieces, cur, acc) ==
    IF pieces = <<>> THEN Append(acc, cur)
    ELSE IF Head(pieces) = "." THEN SplitLoop(Tail(pieces), "", Append(acc, cur))
    ELSE SplitLoop(Tail(pieces), Head(pieces), acc)

Split(property) == SplitLoop(property.s, "", <<>>)

\* A bug: the loop has no test for null and undefined.
RECURSIVE GetValueLoopNoGuard(_, _)
GetValueLoopNoGuard(value, props) ==
    IF props = <<>> THEN value
    ELSE GetValueLoopNoGuard(GetProp(value, Head(props)), Tail(props))

\* getValue's loop over the path's segments.
RECURSIVE GetValueLoop(_, _)
GetValueLoop(value, props) ==
    IF props = <<>> THEN value
    ELSE IF value.t \in {"null", "undef"} THEN JsNull
    ELSE GetValueLoop(GetProp(value, Head(props)), Tail(props))

\* getValue(obj, property).
getValue(obj, property) ==
    IF Falsy(obj) \/ Falsy(property) THEN JsNull
    ELSE GetValueLoop(obj, Split(property))

\* ToNumber for a relational comparison: null is 0; undefined and objects
\* are NaN, for which every comparison is false.
IsNaN(v) == v.t \in {"undef", "obj"}
ToNumber(v) == IF v.t = "num" THEN v.n ELSE 0

\* JavaScript's a < b, a > b and a >= b.
JsLess(a, b) == ~IsNaN(a) /\ ~IsNaN(b) /\ ToNumber(a) < ToNumber(b)
JsGreater(a, b) == JsLess(b, a)
JsGreaterEq(a, b) == ~IsNaN(a) /\ ~IsNaN(b) /\ ToNumber(a) >= ToNumber(b)

\* a || b.
JsOr(a, b) == IF Falsy(a) THEN b ELSE a

\* The characters of the strings compared: the space, the digits, and the
\* letters e, s, t in both cases.
DigitChars == <<"0", "1", "2", "3", "4", "5", "6", "7", "8", "9">>
LetterChars == <<"e", "s", "t">>
UpperChars == <<"E", "S", "T">>

IsDigit(c) == \E k \in DOMAIN DigitChars : DigitChars[k] = c
IsUpper(c) == \E k \in DOMAIN UpperChars : UpperChars[k] = c
DigitValue(c) == (CHOOSE k \in DOMAIN DigitChars : DigitChars[k] = c) - 1

\* String(n) for a number of the model (an integer, not negative).
RECURSIVE DigitsOf(_)
DigitsOf(n) ==
    IF n < Len(DigitChars) THEN <<DigitChars[n + 1]>>
    ELSE Append(DigitsOf(n \div Len(DigitChars)),
                DigitChars[(n % Len(DigitChars)) + 1])

\* String(v) for numbers and strings.
ToStr(v) == IF v.t = "num" THEN DigitsOf(v.n) ELSE v.s

\* The order of the characters at the collation's first level: the space
\* before every digit, the digits before every letter, the letters in the
\* alphabet's order whatever their case.
LetterRank(c) ==
    CHOOSE k \in DOMAIN LetterChars : LetterChars[k] = c \/ UpperChars[k] = c

CharKey(c) ==
    IF c = " " THEN <<0, 0>>
    ELSE IF IsDigit(c) THEN <<1, DigitValue(c)>>
    ELSE <<2, LetterRank(c)>>

\* The collation keys of a string without { numeric: true }: one per
\* character.
RECURSIVE PlainKeys(_)
PlainKeys(chars) ==
    IF chars = <<>> THEN <<>> ELSE <<CharKey(Head(chars))>> \o PlainKeys(Tail(chars))

\* The collation keys with { numeric: true }: a run of digits is one key,
\* the number it writes.  run is the value of the digits read since the
\* last other character, inRun whether there are any.
RECURSIVE NumericKeys(_, _, _)
NumericKeys(chars, inRun, run) ==
    IF chars = <<>> THEN (IF inRun THEN <<(<<1, run>>)>> ELSE <<>>)
    ELSE IF IsDigit(Head(chars))
    THEN NumericKeys(Tail(chars), TRUE,
                     (IF inRun THEN run * Len(DigitChars) ELSE 0)
                         + DigitValue(Head(chars)))
    ELSE (IF inRun THEN <<(<<1, run>>)>> ELSE <<>>)
             \o <<CharKey(Head(chars))>>
             \o NumericKeys(Tail(chars), FALSE, 0)

\* The order of two key sequences: the first difference decides, a proper
\* prefix comes first.
RECURSIVE CompareKeys(_, _)
CompareKeys(ka, kb) ==
    IF ka = <<>> THEN (IF kb = <<>> THEN 0 ELSE 0 - 1)
    ELSE IF kb = <<>> THEN 1
    ELSE IF Head(ka) = Head(kb) THEN CompareKeys(Tail(ka), Tail(kb))
    ELSE IF Head(ka)[1] < Head(kb)[1] THEN 0 - 1
    ELSE IF Head(ka)[1] > Head(kb)[1] THEN 1
    ELSE IF Head(ka)[2] < Head(kb)[2] THEN 0 - 1
    ELSE 1

\* The collation's case level, which decides between strings whose keys
\* are equal: at the first letter that differs in case, lower case first.
RECURSIVE CompareCase(_, _)
CompareCase(a, b) ==
    IF a = <<>> \/ b = <<>> THEN 0
    ELSE IF IsUpper(Head(a)) = IsUpper(Head(b)) THEN CompareCase(Tail(a), Tail(b))
    ELSE IF IsUpper(Head(b)) THEN 0 - 1
    ELSE 1

\* A bug: the option { numeric: true } is not given.
localeCompareNotNumeric(a, b) ==
    IF CompareKeys(PlainKeys(a), PlainKeys(b)) # 0
    THEN CompareKeys(PlainKeys(a), PlainKeys(b))
    ELSE CompareCase(a, b)

\* a.localeCompare(b, undefined, { numeric: true }) for two strings over
\* these characters.
localeCompare(a, b) ==
    IF CompareKeys(NumericKeys(a, FALSE, 0), NumericKeys(b, FALSE, 0)) # 0
    THEN CompareKeys(NumericKeys(a, FALSE, 0), NumericKeys(b, FALSE, 0))
    ELSE CompareCase(a, b)

\* A bug: an absent value ranks below every present one.
compareAbsentFirst(a, b) ==
    IF a.t \in {"null", "undef"}
    THEN (IF b.t \in {"null", "undef"} THEN 0 ELSE 0 - 1)
    ELSE IF b.t \in {"null", "undef"} THEN 1
    ELSE IF a.t = "num" /\ b.t = "num" THEN a.n - b.n
    ELSE IF a.t = "str" /\ b.t = "str" THEN localeCompare(a.s, b.s)
    ELSE localeCompare(ToStr(a), ToStr(b))

\* compare(a, b) for numbers, strings, null and undefined.
compare(a, b) ==
    IF a.t \in {"null", "undef"}
    THEN (IF b.t \in {"null", "undef"} THEN 0 ELSE 1)
    ELSE IF b.t \in {"null", "undef"} THEN 0 - 1
    ELSE IF a.t = "num" /\ b.t = "num" THEN a.n - b.n
    ELSE IF a.t = "str" /\ b.t = "str" THEN localeCompare(a.s, b.s)
    ELSE localeCompare(ToStr(a), ToStr(b))

\* A bug: no temporary, so arr[j] receives the value just written to arr[i].
swapNoTemp(arr, i, j) ==
    IF i # j /\ i >= 0 /\ j >= 0 /\ i < Len(arr) /\ j < Len(arr)
    THEN [arr EXCEPT ![i + 1] = arr[j + 1]]
    ELSE arr

\* swap(arr, i, j), zero-based: the array after the call.
swap(arr, i, j) ==
    IF i # j /\ i >= 0 /\ j >= 0 /\ i < Len(arr) /\ j < Len(arr)
    THEN [arr EXCEPT ![i + 1] = arr[j + 1], ![j + 1] = arr[i + 1]]
    ELSE arr

\* A bug: `const sorted = arr`, the caller's array itself.
CopyIsAlias(arr) == [alias |-> TRUE, items |-> arr]

\* [...arr]: a new array object with the same elements.
Copy(arr) == [alias |-> FALSE, items |-> arr]

\* A bug: the thresholds are tested with > instead of >=.
calculateGradeStrict(mark) ==
    IF JsGreater(mark, Num(90)) THEN "A+"
    ELSE IF JsGreater(mark, Num(85)) THEN "A"
    ELSE IF JsGreater(mark, Num(80)) THEN "A-"
    ELSE IF JsGreater(mark, Num(75)) THEN "B+"
    ELSE IF JsGreater(mark, Num(70)) THEN "B"
    ELSE IF JsGreater(mark, Num(65)) THEN "B-"
    ELSE IF JsGreater(mark, Num(60)) THEN "C+"
    ELSE IF JsGreater(mark, Num(55)) THEN "C"
    ELSE IF JsGreater(mark, Num(50)) THEN "C-"
    ELSE "F"

\* calculateGrade(mark).
calculateGrade(mark) ==
    IF JsGreaterEq(mark, Num(90)) THEN "A+"
    ELSE IF JsGreaterEq(mark, Num(85)) THEN "A"
    ELSE IF JsGreaterEq(mark, Num(80)) THEN "A-"
    ELSE IF JsGreaterEq(mark, Num(75)) THEN "B+"
    ELSE IF JsGreaterEq(mark, Num(70)) THEN "B"
    ELSE IF JsGreaterEq(mark, Num(65)) THEN "B-"
    ELSE IF JsGreaterEq(mark, Num(60)) THEN "C+"
    ELSE IF JsGreaterEq(mark, Num(55)) THEN "C"
    ELSE IF JsGreaterEq(mark, Num(50)) THEN "C-"
    ELSE "F"

\* { ...student, grade: ..., originalIndex: ... }: the fields of the copy.
GradedFields(student) ==
    LET mark == JsOr(GetProp(student, "mark"), Num(0))
        grade == calculateGrade(mark)
        originalIndex ==
            JsOr(GetProp(student, "index"), GetProp(student, "originalIndex"))
    IN [p \in DOMAIN student.f \cup {"grade", "originalIndex"} |->
           IF p = "grade" THEN Str(grade)
           ELSE IF p = "originalIndex" THEN originalIndex
           ELSE student.f[p]]

\* A bug: the callback writes grade and originalIndex into the student
\* itself and returns it.
WithGradeInPlace(student) ==
    [orig |-> Obj(GradedFields(student)), copy |-> Obj(GradedFields(student))]

\* The callback of students.map in sortStudentsWithGrades: the student
\* object after the call (orig) and the object returned (copy).
WithGrade(student) ==
    [orig |-> student, copy |-> Obj(GradedFields(student))]

\* countSwaps's loop from index i on: temp[i] !== sorted[i], then findIndex
\* of the first later element === sorted[i].  Elements are numbers, or
\* records that differ in a field whenever they are different objects.
RECURSIVE CountSwapsLoop(_, _, _, _)
CountSwapsLoop(temp, sorted, i, swaps) ==
    IF i >= Len(temp) - 1 THEN swaps
    ELSE IF temp[i + 1] # sorted[i + 1]
    THEN LET later == {idx \in 0..(Len(temp) - 1) :
                          idx > i /\ temp[idx + 1] = sorted[i + 1]}
         IN IF later = {} THEN CountSwapsLoop(temp, sorted, i + 1, swaps)
            ELSE LET correctIndex ==
                         CHOOSE idx \in later : \A o \in later : idx <= o
                 IN CountSwapsLoop(
                        [temp EXCEPT ![i + 1] = temp[correctIndex + 1],
                                     ![correctIndex + 1] = temp[i + 1]],
                        sorted, i + 1, swaps + 1)
    ELSE CountSwapsLoop(temp, sorted, i + 1, swaps)

\* A bug: the loop starts at index 1.
countSwapsSkipsFirst(original, sorted) == CountSwapsLoop(original, sorted, 1, 0)

countSwaps(original, sorted) == CountSwapsLoop(original, sorted, 0, 0)

\* A bug: the count of the pairs with repetition, n(n+1)/2.
getSortingStatsWrongCount(originalArray, sortedArray) ==
    LET n == Len(originalArray) IN
    [arraySize |-> n,
     comparisons |-> (n * (n + 1)) \div 2,
     swaps |-> countSwaps(originalArray, sortedArray),
     timeComplexity |-> <<"O(n^2) where n = ", n>>,
     spaceComplexity |-> "O(1)",
     algorithm |-> "Selection Sort"]

\* A bug: the label has no n put into it.
getSortingStatsBareLabel(originalArray, sortedArray) ==
    LET n == Len(originalArray) IN
    [arraySize |-> n,
     comparisons |-> (n * (n - 1)) \div 2,
     swaps |-> countSwaps(originalArray, sortedArray),
     timeComplexity |-> <<"O(n^2)">>,
     spaceComplexity |-> "O(1)",
     algorithm |-> "Selection Sort"]

\* getSortingStats(originalArray, sortedArray); the template string of
\* timeComplexity is its fixed text and the number put into it, and n^2
\* stands for the label's n squared.
getSortingStats(originalArray, sortedArray) ==
    LET n == Len(originalArray) IN
    [arraySize |-> n,
     comparisons |-> (n * (n - 1)) \div 2,
     swaps |-> countSwaps(originalArray, sortedArray),
     timeComplexity |-> <<"O(n^2) where n = ", n>>,
     spaceComplexity |-> "O(1)",
     algorithm |-> "Selection Sort"]

\* The inner loop's test of each entry point: whether arr[j] replaces
\* arr[extremeIndex] as the extreme element.
\* A bug: the ascending flag is ignored, the minimum is always taken.
NumericPickIgnoresFlag(arr, j, ext, asc) ==
    JsLess(arr[j + 1], arr[ext + 1])

NumericPick(arr, j, ext, asc) ==
    IF asc THEN JsLess(arr[j + 1], arr[ext + 1])
    ELSE JsGreater(arr[j + 1], arr[ext + 1])

\* A bug: the ascending flag is ignored, the maximum is always taken.
TablePickIgnoresFlag(arr, j, ext, by, asc) ==
    LET currentValue == getValue(arr[j + 1], by)
        extremeValue == getValue(arr[ext + 1], by)
        comparison == compare(currentValue, extremeValue)
    IN comparison > 0

\* A bug: the tests are `<= 0` and `>= 0`, so the last of several equal
\* extremes is taken.
TablePickNonStrict(arr, j, ext, by, asc) ==
    LET currentValue == getValue(arr[j + 1], by)
        extremeValue == getValue(arr[ext + 1], by)
        comparison == compare(currentValue, extremeValue)
    IN IF asc THEN comparison <= 0 ELSE comparison >= 0

TablePick(arr, j, ext, by, asc) ==
    LET currentValue == getValue(arr[j + 1], by)
        extremeValue == getValue(arr[ext + 1], by)
        comparison == compare(currentValue, extremeValue)
    IN IF asc THEN comparison < 0 ELSE comparison > 0

\* A bug: the tests are <= and >=, so equal marks change places.
StudentsPickNonStrict(arr, j, ext, by, asc) ==
    LET currentValue == getValue(arr[j + 1], by)
        extremeValue == getValue(arr[ext + 1], by)
    IN IF asc THEN JsGreaterEq(extremeValue, currentValue)
       ELSE JsGreaterEq(currentValue, extremeValue)

\* A bug: the ascending flag is ignored, the minimum is always taken.
StudentsPickIgnoresFlag(arr, j, ext, by, asc) ==
    LET currentValue == getValue(arr[j + 1], by)
        extremeValue == getValue(arr[ext + 1], by)
    IN JsLess(currentValue, extremeValue)

StudentsPick(arr, j, ext, by, asc) ==
    LET currentValue == getValue(arr[j + 1], by)
        extremeValue == getValue(arr[ext + 1], by)
    IN IF asc THEN JsLess(currentValue, extremeValue)
       ELSE JsGreater(currentValue, extremeValue)

Pick(entry, arr, j, ext, by, asc) ==
    IF entry = "sortNumericArray" THEN NumericPick(arr, j, ext, asc)
    ELSE IF entry = "sortTableData" THEN TablePick(arr, j, ext, by, asc)
    ELSE StudentsPick(arr, j, ext, by, asc)

\* The loops of an entry point as a function of the working array: the
\* inner loop gives the extreme index, the outer loop the sorted array.
RECURSIVE InnerLoop(_, _, _, _, _, _)
InnerLoop(entry, arr, j, ext, by, asc) ==
    IF j < Len(arr)
    THEN InnerLoop(entry, arr, j + 1,
                   (IF Pick(entry, arr, j, ext, by, asc) THEN j ELSE ext),
                   by, asc)
    ELSE ext

RECURSIVE OuterLoop(_, _, _, _, _)
OuterLoop(entry, arr, i, by, asc) ==
    IF i < Len(arr) - 1
    THEN LET extremeIndex == InnerLoop(entry, arr, i + 1, i, by, asc) IN
         OuterLoop(entry,
                   (IF extremeIndex # i THEN swap(arr, i, extremeIndex) ELSE arr),
                   i + 1, by, asc)
    ELSE arr

\* What entry(input, by, asc) returns for an array input.
SortResult(entry, input, by, asc) ==
    IF Len(input) <= 1 THEN input ELSE OuterLoop(entry, input, 0, by, asc)

\* -------------------------------------------------------- sort: operations

\* No sort call.
SortIdle ==
    /\ sEntry = "none" /\ sInput = <<>> /\ sOrig = <<>> /\ sBy = Undef
    /\ sAsc = TRUE /\ sArr = <<>> /\ sAlias = FALSE
    /\ si = 0 /\ sj = 0 /\ sExt = 0 /\ spc = "done"
    /\ sPass = 1 /\ sStats = NoStats /\ sMoved = {}
    /\ sNull = FALSE /\ sThrew = FALSE /\ sCmp = 0 /\ sSwaps = 0

\* A call of an entry point with its arguments: an array, or null.
SortCall ==
    /\ sEntry \in Entries
    /\ sNull \in BOOLEAN
    /\ \/ /\ sEntry = "sortNumericArray"
          /\ sBy = Undef
          /\ sInput \in (IF sNull THEN {<<>>} ELSE NumericInputs)
       \/ /\ sEntry # "sortNumericArray"
          /\ sBy \in Paths
          /\ sInput \in (IF sNull THEN {<<>>} ELSE RecordInputs)
       \/ /\ sEntry = "sortTableData" /\ ~sNull
          /\ sBy = NamePath
          /\ sInput \in NameInputs
    /\ sOrig = sInput
    /\ sAsc \in BOOLEAN
    /\ sArr = <<>> /\ sAlias = FALSE /\ si = 0 /\ sj = 0 /\ sExt = 0
    /\ spc = (IF sEntry = "sortStudentsWithGrades" THEN "map" ELSE "copy")
    /\ sPass = 1 /\ sStats = NoStats /\ sMoved = {}
    /\ sThrew = FALSE /\ sCmp = 0 /\ sSwaps = 0

\* sortStudentsWithGrades: studentsWithGrades = students.map(...), which
\* is then handed to sortStudentsByMarks(studentsWithGrades, 'mark', ...).
sortMap ==
    /\ spc = "map"
    /\ IF sNull
       THEN sThrew' = TRUE /\ spc' = "threw" /\ UNCHANGED <<sArr, sInput>>
       ELSE /\ sArr' = [k \in 1..Len(sInput) |-> WithGrade(sInput[k]).copy]
            /\ sInput' = [k \in 1..Len(sInput) |-> WithGrade(sInput[k]).orig]
            /\ spc' = "copy"
            /\ UNCHANGED sThrew
    /\ UNCHANGED <<sEntry, sOrig, sBy, sAsc, sAlias, si, sj, sExt, sPass,
                   sStats, sMoved, sNull, sCmp, sSwaps>>
    /\ UNCHANGED <<listVars, gradeVars, callVars>>

\* const sorted = [...input]; if (sorted.length <= 1) return sorted;
\* the input is the caller's array, or studentsWithGrades.
sortCopy ==
    /\ spc = "copy"
    /\ IF sNull
       THEN sThrew' = TRUE /\ spc' = "threw" /\ UNCHANGED <<sArr, sAlias>>
       ELSE LET c == Copy(IF sEntry = "sortStudentsWithGrades" THEN sArr
                          ELSE sInput) IN
            /\ sArr' = c.items
            /\ sAlias' = (c.alias /\ sEntry # "sortStudentsWithGrades")
            /\ spc' = IF Len(c.items) <= 1 THEN "done" ELSE "outer"
            /\ UNCHANGED sThrew
    /\ UNCHANGED <<sEntry, sInput, sOrig, sBy, sAsc, si, sj, sExt, sPass,
                   sStats, sMoved, sNull, sCmp, sSwaps>>
    /\ UNCHANGED <<listVars, gradeVars, callVars>>

\* A bug: the inner loop starts at j = i and compares the boundary element
\* with itself.
sortOuterSelfCompare ==
    /\ spc = "outer"
    /\ IF si < Len(sArr) - 1
       THEN sExt' = si /\ sj' = si /\ spc' = "inner"
       ELSE spc' = "done" /\ UNCHANGED <<sExt, sj>>
    /\ UNCHANGED <<sEntry, sInput, sOrig, sBy, sAsc, sArr, sAlias, si, sPass,
                   sStats, sMoved, sNull, sThrew, sCmp, sSwaps>>
    /\ UNCHANGED <<listVars, gradeVars, callVars>>

\* A bug: the outer loop runs while i < length.
sortOuterOneMore ==
    /\ spc = "outer"
    /\ IF si < Len(sArr)
       THEN sExt' = si /\ sj' = si + 1 /\ spc' = "inner"
       ELSE spc' = "done" /\ UNCHANGED <<sExt, sj>>
    /\ UNCHANGED <<sEntry, sInput, sOrig, sBy, sAsc, sArr, sAlias, si, sPass,
                   sStats, sMoved, sNull, sThrew, sCmp, sSwaps>>
    /\ UNCHANGED <<listVars, gradeVars, callVars>>

\* for (i...; i < length - 1; ...) { let extremeIndex = i; for (j = i + 1 ...
sortOuter ==
    /\ spc = "outer"
    /\ IF si < Len(sArr) - 1
       THEN sExt' = si /\ sj' = si + 1 /\ spc' = "inner"
       ELSE spc' = "done" /\ UNCHANGED <<sExt, sj>>
    /\ UNCHANGED <<sEntry, sInput, sOrig, sBy, sAsc, sArr, sAlias, si, sPass,
                   sStats, sMoved, sNull, sThrew, sCmp, sSwaps>>
    /\ UNCHANGED <<listVars, gradeVars, callVars>>

\* One pass of the inner loop's body, or its exit.
sortInner ==
    /\ spc = "inner"
    /\ IF sj < Len(sArr)
       THEN /\ sExt' = IF Pick(sEntry, sArr, sj, sExt, sBy, sAsc) THEN sj ELSE sExt
            /\ sCmp' = sCmp + 1
            /\ sj' = sj + 1
            /\ spc' = "inner"
       ELSE spc' = "swap" /\ UNCHANGED <<sExt, sj, sCmp>>
    /\ UNCHANGED <<sEntry, sInput, sOrig, sBy, sAsc, sArr, sAlias, si, sPass,
                   sStats, sMoved, sNull, sThrew, sSwaps>>
    /\ UNCHANGED <<listVars, gradeVars, callVars>>

\* A bug: the extreme element is swapped with the first element, not with
\* the boundary element.
sortSwapWithFirst ==
    /\ spc = "swap"
    /\ sArr' = IF sExt # si THEN swap(sArr, 0, sExt) ELSE sArr
    /\ sInput' = IF sAlias THEN sArr' ELSE sInput
    /\ sMoved' = IF sExt # si THEN sMoved \cup {sArr[si + 1]} ELSE sMoved
    /\ sSwaps' = IF sExt # si THEN sSwaps + 1 ELSE sSwaps
    /\ si' = si + 1
    /\ spc' = "outer"
    /\ UNCHANGED <<sEntry, sOrig, sBy, sAsc, sAlias, sj, sExt, sPass, sStats,
                   sNull, sThrew, sCmp>>
    /\ UNCHANGED <<listVars, gradeVars, callVars>>

\* if (extremeIndex !== i) this.swap(sorted, i, extremeIndex); then i++.
\* A write to the working array is a write to the caller's array when the
\* two are one object.
sortSwap ==
    /\ spc = "swap"
    /\ sArr' = IF sExt # si THEN swap(sArr, si, sExt) ELSE sArr
    /\ sInput' = IF sAlias THEN sArr' ELSE sInput
    /\ sMoved' = IF sExt # si THEN sMoved \cup {sArr[si + 1]} ELSE sMoved
    /\ sSwaps' = IF sExt # si THEN sSwaps + 1 ELSE sSwaps
    /\ si' = si + 1
    /\ spc' = "outer"
    /\ UNCHANGED <<sEntry, sOrig, sBy, sAsc, sAlias, sj, sExt, sPass, sStats,
                   sNull, sThrew, sCmp>>
    /\ UNCHANGED <<listVars, gradeVars, callVars>>

\* The caller hands its array and the returned one to getSortingStats.
sortStats ==
    /\ spc = "done" /\ sEntry # "none" /\ sStats = NoStats
    /\ sStats' = getSortingStats(sInput, sArr)
    /\ UNCHANGED <<sEntry, sInput, sOrig, sBy, sAsc, sArr, sAlias, si, sj,
                   sExt, spc, sPass, sMoved, sNull, sThrew, sCmp, sSwaps>>
    /\ UNCHANGED <<listVars, gradeVars, callVars>>

\* The caller sorts the returned array again, with the same entry point and
\* the same arguments.
sortAgain ==
    /\ spc = "done" /\ sPass = 1
    /\ sEntry \in PlainEntries
    /\ sInput' = sArr /\ sOrig' = sArr
    /\ sArr' = <<>> /\ sAlias' = FALSE /\ si' = 0 /\ sj' = 0 /\ sExt' = 0
    /\ spc' = "copy" /\ sPass' = 2 /\ sStats' = NoStats /\ sMoved' = {}
    /\ sCmp' = 0 /\ sSwaps' = 0
    /\ UNCHANGED <<sEntry, sBy, sAsc, sNull, sThrew>>
    /\ UNCHANGED <<listVars, gradeVars, callVars>>

SortNext ==
    \/ sortMap
    \/ sortCopy
    \/ sortOuter
    \/ sortInner
    \/ sortSwap
    \/ sortStats
    \/ sortAgain

\* -------------------------------------------------------- grade: operations

\* No calculateGrade call.
GradeIdle == gMark = Num(0) /\ gGrade = ""

\* A call of calculateGrade with a mark.
GradeCall == gMark \in GradeMarks /\ gGrade = ""

gradeReturn ==
    /\ gGrade = ""
    /\ gGrade' = calculateGrade(gMark)
    /\ UNCHANGED <<gMark, listVars, sortVars, callVars>>

\* ------------------------------------------------------ helpers: operations

\* No call of a helper on its own.
CallIdle ==
    cFn = "none" /\ cArgA = Undef /\ cArgB = Undef /\ cRet = Undef
        /\ cDone = FALSE

\* A call of getValue(obj, property) or of compare(a, b).
HelperCall ==
    /\ cFn \in {"getValue", "compare"}
    /\ cArgA \in (IF cFn = "getValue" THEN ValueObjs ELSE CompareVals)
    /\ cArgB \in (IF cFn = "getValue" THEN ValuePaths ELSE CompareVals)
    /\ cRet = Undef /\ cDone = FALSE

getValueReturn ==
    /\ cFn = "getValue" /\ ~cDone
    /\ cRet' = getValue(cArgA, cArgB)
    /\ cDone' = TRUE
    /\ UNCHANGED <<cFn, cArgA, cArgB, listVars, sortVars, gradeVars>>

compareReturn ==
    /\ cFn = "compare" /\ ~cDone
    /\ cRet' = Num(compare(cArgA, cArgB))
    /\ cDone' = TRUE
    /\ UNCHANGED <<cFn, cArgA, cArgB, listVars, sortVars, gradeVars>>

\* ----------------------------------------------------------- specifications

\* The list's life: construction, then any calls of its methods.
Init == ListInit /\ SortIdle /\ GradeIdle /\ CallIdle

Next == ListNext

Spec == Init /\ [][Next]_vars

\* One call of a sort entry point, from its arguments to its return.
SortInit == ListInit /\ SortCall /\ GradeIdle /\ CallIdle

SortSpec == SortInit /\ [][SortNext]_vars

\* One call of calculateGrade.
GradeInit == ListInit /\ SortIdle /\ GradeCall /\ CallIdle

GradeNext == gradeReturn

GradeSpec == GradeInit /\ [][GradeNext]_vars

\* The program at work: calls of the list's methods, or a sort call whose
\* steps are taken one after the other until it returns (the code is
\* synchronous: a step that can be taken is taken).  The list's calls are
\* those that change it and those that answer yes or no; get, getSize and
\* toArray leave the list as it is, so every list state is reached without
\* them.  The sort calls take arrays of two different marks: elements are
\* swapped or left where they are, and the steps of a call are the same
\* whatever the marks.
RunKeys == {Num(n) : n \in NumVals \ {0}}

RunCall ==
    /\ SortCall
    /\ IF sEntry = "sortNumericArray"
       THEN \A k \in 1..Len(sInput) : sInput[k] \in RunKeys
       ELSE /\ sBy = MarkPath
            /\ \A k \in 1..Len(sInput) : GetProp(sInput[k], "mark") \in RunKeys

RunInit == ListInit /\ (SortIdle \/ RunCall) /\ GradeIdle /\ CallIdle

ListStep ==
    /\ sEntry = "none"
    /\ \/ \E d \in Data : add(d)
       \/ \E d \in Data : remove(d)
       \/ \E i \in Indices : removeAt(i)
       \/ \E d \in Data : contains(d)
       \/ isEmpty
       \/ clear

SortRun == sortMap \/ sortCopy \/ sortOuter \/ sortInner \/ sortSwap

RunNext == ListStep \/ SortRun

RunSpec == RunInit /\ [][RunNext]_vars /\ WF_sortVars(SortRun)

\* One call of getValue or of compare.
HelperInit == ListInit /\ SortIdle /\ GradeIdle /\ HelperCall

HelperNext == getValueReturn \/ compareReturn

HelperSpec == HelperInit /\ [][HelperNext]_vars

\* ------------------------------------------------------------------ claims

\* What toArray() returns now, and what it returned when the last call began.
Arr == ToArray(heap, head)
PreArr == ToArray(pre.heap, pre.head)

Range(seq) == {seq[k] : k \in 1..Len(seq)}

\* seq without its k-th element.
RemoveIndex(seq, k) == SubSeq(seq, 1, k - 1) \o SubSeq(seq, k + 1, Len(seq))

\* Some element of seq is strictly equal to v, and the first such position.
Occurs(seq, v) == \E k \in 1..Len(seq) : StrictEq(seq[k], v)
FirstMatch(seq, v) ==
    CHOOSE k \in 1..Len(seq) :
        StrictEq(seq[k], v) /\ \A m \in 1..(k - 1) : ~StrictEq(seq[m], v)

Mutators == {"add", "remove", "removeAt", "clear"}
ReadOnly == {"get", "contains", "getSize", "isEmpty", "toArray"}

\* How often e occurs in seq, and equality of two sequences as multisets.
Count(seq, e) == Cardinality({k \in 1..Len(seq) : seq[k] = e})
SameMultiset(a, b) ==
    \A e \in Range(a) \cup Range(b) : Count(a, e) = Count(b, e)

\* C1: after any calls, the chain from head is acyclic, size equals the
\* number of nodes reachable from head (the length of toArray()), getSize()
\* returns that number and isEmpty() is true exactly when it is 0.
C1_CountMatchesChain ==
    /\ Acyclic(heap, head)
    /\ size = Len(Chain(heap, head, Fuel(heap)))
    /\ size = Len(Arr)
    /\ op = "getSize" => ret = Len(Arr)
    /\ op = "isEmpty" => (ret <=> Len(Arr) = 0)

C1_Witness ==
    op = "remove" /\ ret = TRUE /\ pre.size = 3 /\ size = 2 /\ Len(Arr) = 2

\* C2: add(v) returns true, increases the size by exactly 1 and appends v at
\* the end of toArray(); add("x") on an empty list gives ["x"], size 1.
C2_AddAppends ==
    op = "add" =>
        /\ ret = TRUE /\ ~threw
        /\ size = pre.size + 1
        /\ Arr = Append(PreArr, argData)
        /\ (PreArr = <<>> /\ argData = "x") => (Arr = <<"x">> /\ size = 1)

C2_Witness == op = "add" /\ Len(PreArr) = 2 /\ Arr = <<"NaN", "x", "x">>

\* C3: remove(v) returns true exactly when v occurs in the list by strict
\* equality; then only the first occurrence is removed, the size drops by 1
\* and the other payloads keep their order; otherwise nothing changes.
C3_RemoveFirstOccurrence ==
    op = "remove" =>
        /\ ~threw
        /\ ret <=> Occurs(PreArr, argData)
        /\ ret => /\ Arr = RemoveIndex(PreArr, FirstMatch(PreArr, argData))
                  /\ size = pre.size - 1
        /\ ~ret => head = pre.head /\ heap = pre.heap /\ size = pre.size

C3_Witness ==
    op = "remove" /\ ret = TRUE /\ PreArr = <<"NaN", "x", "x">>
    /\ Arr = <<"NaN", "x">>

\* C4: removeAt(index) with index < 0 or index >= size returns false, does
\* not throw and leaves the list and its size unchanged.
C4_RemoveAtOutOfRange ==
    (op = "removeAt" /\ (argIndex < 0 \/ argIndex >= pre.size)) =>
        /\ ret = FALSE /\ ~threw
        /\ head = pre.head /\ heap = pre.heap /\ size = pre.size

C4_Witness ==
    op = "removeAt" /\ argIndex = 5 /\ pre.size = 3 /\ ret = FALSE /\ size = 3

\* C5: removeAt(index) with 0 <= index <= size - 1 returns true, decrements
\* the size by 1 and deletes exactly the element at that position.
C5_RemoveAtInRange ==
    (op = "removeAt" /\ 0 <= argIndex /\ argIndex <= pre.size - 1) =>
        /\ ret = TRUE /\ ~threw
        /\ size = pre.size - 1
        /\ Arr = RemoveIndex(PreArr, argIndex + 1)

C5_Witness ==
    op = "removeAt" /\ argIndex = 1 /\ PreArr = <<"x", "NaN", "x">>
    /\ Arr = <<"x", "x">>

\* C6: get(index) returns toArray()[index] when 0 <= index < size, and the
\* null sentinel, without throwing, when index is negative or >= size.
C6_GetByIndex ==
    op = "get" =>
        /\ ~threw
        /\ (0 <= argIndex /\ argIndex < size) => ret = Arr[argIndex + 1]
        /\ (argIndex < 0 \/ argIndex >= size) => ret = NullSentinel

C6_Witness ==
    op = "get" /\ argIndex = 2 /\ Arr = <<"x", "x", "NaN">> /\ ret = "NaN"

\* C7, as claimed: contains(v) returns true if and only if v is a payload of
\* a node reachable from head; it is true right after add(v) and false after
\* clear().
C7_ContainsIffElement ==
    /\ op = "contains" => (ret <=> argData \in Range(Arr))
    /\ op = "add" => Contains(heap, head, argData)
    /\ op = "clear" => \A v \in Data : ~Contains(heap, head, v)

\* C7, amended: contains(v) returns true if and only if some payload
\* reachable from head is strictly equal (===) to v; it is true right after
\* add(v) for every v other than NaN, and false after clear().
C7_ContainsIffStrictlyEqual ==
    /\ op = "contains" => (~threw /\ (ret <=> Occurs(Arr, argData)))
    /\ (op = "add" /\ argData # "NaN") => Contains(heap, head, argData)
    /\ op = "clear" => \A v \in Data : ~Contains(heap, head, v)

C7_Witness ==
    op = "contains" /\ argData = "x" /\ ret = TRUE /\ Arr = <<"NaN", "NaN", "x">>

\* C8: get, contains, getSize, isEmpty and toArray leave head, the chain and
\* the size unchanged, and toArray() called twice in a row returns two equal
\* sequences.
C8_ReadOnlyFrame ==
    [][/\ op' \in ReadOnly => (head' = head /\ heap' = heap /\ size' = size)
       /\ (op = "toArray" /\ op' = "toArray") => ret' = ret]_vars

C8_Witness ==
    op = "toArray" /\ ret = <<"x", "NaN", "x">> /\ snap = ret /\ size = 3

\* C9: clear() leaves head absent, size 0 and toArray() empty, from any
\* state; an array returned earlier by toArray() keeps its contents over
\* clear, add, remove and removeAt.
C9_ClearEmpties ==
    [][/\ op' = "clear" =>
            /\ head' = NULL /\ size' = 0
            /\ ToArray(heap', head') = <<>>
            /\ Len(Chain(heap', head', Fuel(heap'))) = 0
       /\ op' \in Mutators => snap' = snap]_vars

C9_Witness ==
    op = "clear" /\ pre.size = 3 /\ snap = <<"x", "NaN", "x">>
    /\ head = NULL /\ size = 0

\* C10: every sort entry point, in both directions, returns a sequence of
\* the input's length with the input's multiset of elements.
C10_SortPermutes ==
    (spc = "done" /\ sEntry \in PlainEntries) =>
        /\ Len(sArr) = Len(sInput)
        /\ SameMultiset(sArr, sInput)

C10_Witness ==
    /\ spc = "done" /\ sEntry = "sortTableData" /\ ~sAsc
    /\ Len(sInput) = 3 /\ sArr # sInput
    /\ sArr[1] = sInput[3] /\ sArr[3] = sInput[1]

\* The sort key of the k-th record of seq, and whether a key is absent.
KeyAt(seq, k) == getValue(seq[k], sBy)
Absent(v) == v.t \in {"null", "undef"}

\* The numbers of a numeric array.
Numbers(seq) == [k \in 1..Len(seq) |-> seq[k].n]

\* The position of record e in seq (the records of an input differ in index).
PosIn(seq, e) == CHOOSE k \in 1..Len(seq) : seq[k] = e

\* C11: every sort entry point works on a copy: when it returns, the
\* caller's array holds the same elements in the same order as before.
C11_InputUntouched ==
    (spc = "done" /\ sEntry # "none") => sInput = sOrig

C11_Witness ==
    /\ spc = "done" /\ sEntry = "sortStudentsByMarks" /\ sPass = 1
    /\ Len(sOrig) = 3 /\ sArr # sOrig /\ sInput = sOrig

\* C12: sortNumericArray returns a non-decreasing sequence when ascending
\* and a non-increasing one when descending; [64,34,25,12,22,11,90] gives
\* [11,12,22,25,34,64,90] and [90,64,34,25,22,12,11].
C12_NumericSorted ==
    (spc = "done" /\ sEntry = "sortNumericArray") =>
        /\ \A k \in 1..(Len(sArr) - 1) :
               IF sAsc THEN sArr[k].n <= sArr[k + 1].n
               ELSE sArr[k].n >= sArr[k + 1].n
        /\ (sOrig = TestNumbers /\ sAsc) =>
               Numbers(sArr) = <<11, 12, 22, 25, 34, 64, 90>>
        /\ (sOrig = TestNumbers /\ ~sAsc) =>
               Numbers(sArr) = <<90, 64, 34, 25, 22, 12, 11>>

C12_Witness ==
    /\ spc = "done" /\ sEntry = "sortNumericArray" /\ ~sAsc
    /\ sOrig = TestNumbers /\ Numbers(sArr) = <<90, 64, 34, 25, 22, 12, 11>>

\* C13: in the result of an ascending sortTableData, every adjacent pair
\* (x, y) whose field values are both present has compare(x, y) <= 0.
C13_AscendingAdjacent ==
    (spc = "done" /\ sEntry = "sortTableData" /\ sAsc) =>
        \A k \in 1..(Len(sArr) - 1) :
            (~Absent(KeyAt(sArr, k)) /\ ~Absent(KeyAt(sArr, k + 1))) =>
                compare(KeyAt(sArr, k), KeyAt(sArr, k + 1)) <= 0

C13_Witness ==
    /\ spc = "done" /\ sEntry = "sortTableData" /\ sAsc /\ sPass = 1
    /\ Len(sArr) = 3 /\ sArr # sOrig
    /\ KeyAt(sOrig, 1) = Num(90) /\ KeyAt(sOrig, 2) = JsNull
    /\ KeyAt(sArr, 1) = Num(55) /\ KeyAt(sArr, 2) = Num(90)

\* No record with a present key stands after a record with an absent key.
AbsentLast(seq) ==
    \A p \in 1..Len(seq) : \A q \in 1..Len(seq) :
        (p < q /\ Absent(KeyAt(seq, p))) => Absent(KeyAt(seq, q))

\* C14: in the result of sortTableData, in both directions, every record
\* whose field value is absent stands after every record whose field value
\* is present.
C14_TableAbsentLast ==
    (spc = "done" /\ sEntry = "sortTableData") => AbsentLast(sArr)

\* The present marks of seq stand in the requested order.
PresentInOrder(seq, asc) ==
    \A p \in 1..Len(seq) : \A q \in 1..Len(seq) :
        (p < q /\ KeyAt(seq, p).t = "num" /\ KeyAt(seq, q).t = "num") =>
            IF asc THEN KeyAt(seq, p).n <= KeyAt(seq, q).n
            ELSE KeyAt(seq, p).n >= KeyAt(seq, q).n

\* C15: in the result of sortStudentsByMarks(students, 'mark', ascending),
\* in both directions, the records whose mark is null or undefined stand
\* after all records with a defined mark, and the defined marks are in the
\* requested order.
C15_StudentsAbsentLast ==
    (spc = "done" /\ sEntry = "sortStudentsByMarks") =>
        AbsentLast(sArr) /\ PresentInOrder(sArr, sAsc)

\* C16: sorting the result of a sort again, with the same entry point and
\* the same arguments, returns the same sequence.
C16_SortIdempotent ==
    (spc = "done" /\ sPass = 2) => sArr = sOrig

C16_Witness ==
    /\ spc = "done" /\ sPass = 2 /\ sEntry = "sortStudentsByMarks" /\ ~sAsc
    /\ Len(sArr) = 3 /\ KeyAt(sArr, 2) = Undef /\ KeyAt(sArr, 1) = Num(90)

\* 0 + 1 + ... + (n - 1): the passes of the inner loop's body, summed over
\* the boundary indices.
RECURSIVE SumBelow(_)
SumBelow(n) == IF n <= 0 THEN 0 ELSE (n - 1) + SumBelow(n - 1)

\* C17: getSortingStats reports comparisons = n(n-1)/2 for an original of
\* length n, whatever its elements: 0 for n = 0 and n = 1, 21 for n = 7.
C17_ComparisonsFormula ==
    sStats # NoStats =>
        /\ sStats.comparisons = SumBelow(Len(sInput))
        /\ 2 * sStats.comparisons = Len(sInput) * (Len(sInput) - 1)
        /\ Len(sInput) <= 1 => sStats.comparisons = 0
        /\ Len(sInput) = 7 => sStats.comparisons = 21

C17_Witness ==
    sStats # NoStats /\ sInput = TestNumbers /\ sStats.comparisons = 21

\* The thresholds of the grades, and the grade of the highest one reached.
Thresholds ==
    {<<90, "A+">>, <<85, "A">>, <<80, "A-">>, <<75, "B+">>, <<70, "B">>,
     <<65, "B-">>, <<60, "C+">>, <<55, "C">>, <<50, "C-">>}

GradeByTable(n) ==
    LET reached == {t \in Thresholds : n >= t[1]} IN
    IF reached = {} THEN "F"
    ELSE (CHOOSE t \in reached : \A u \in reached : u[1] <= t[1])[2]

\* C18: calculateGrade gives a numeric mark the grade of the highest
\* threshold it reaches, F below 50: 84 gives A-, 50 gives C-, 49 gives F.
C18_GradeThresholds ==
    gGrade # "" =>
        /\ gGrade = GradeByTable(gMark.n)
        /\ gMark.n = 84 => gGrade = "A-"
        /\ gMark.n = 50 => gGrade = "C-"
        /\ gMark.n = 49 => gGrade = "F"

C18_Witness == gMark = Num(84) /\ gGrade = "A-"

\* The mark a record is graded by: a missing (or zero) mark counts as 0.
GradedMark(student) ==
    IF Absent(GetProp(student, "mark")) THEN Num(0) ELSE GetProp(student, "mark")

\* rec is a copy of the input record orig, with its grade added.
GradedCopyOf(rec, orig) ==
    /\ \A p \in DOMAIN orig.f : p \in DOMAIN rec.f /\ rec.f[p] = orig.f[p]
    /\ DOMAIN rec.f = DOMAIN orig.f \cup {"grade", "originalIndex"}
    /\ rec.f["grade"] = Str(calculateGrade(GradedMark(orig)))
    /\ rec.f["grade"] = Str(GradeByTable(GradedMark(orig).n))

KeepsOrder(p, q) ==
    (p < q /\ compare(KeyAt(sArr, p), KeyAt(sArr, q)) = 0) =>
        PosIn(sOrig, sArr[p]) < PosIn(sOrig, sArr[q])

C21_DegenerateInputs ==
    (spc \in {"done", "threw"} /\ sEntry \in PlainEntries /\ sPass = 1
        /\ (sNull \/ Len(sOrig) <= 1)) =>
        /\ ~sThrew
        /\ spc = "done"
        /\ sArr = (IF sNull THEN <<>> ELSE sOrig)

\* C27: the comparisons the inner loop executes on an n-element input are
\* exactly n(n-1)/2, whatever the data and the direction, and so equal the
\* comparisons value getSortingStats reports for that input.
C27_ComparisonsExecuted ==
    (spc = "done" /\ sEntry # "none") =>
        /\ 2 * sCmp = Len(sOrig) * (Len(sOrig) - 1)
        /\ sStats # NoStats => sStats.comparisons = sCmp

C27_Witness ==
    /\ spc = "done" /\ sEntry = "sortTableData" /\ ~sAsc
    /\ Len(sOrig) = 3 /\ sCmp = 3 /\ sArr # sOrig
    /\ sStats # NoStats /\ sStats.comparisons = 3

\* seq, an array of numbers, is in the requested order.
NumbersInOrder(seq, asc) ==
    \A k \in 1..(Len(seq) - 1) :
        IF asc THEN seq[k].n <= seq[k + 1].n ELSE seq[k].n >= seq[k + 1].n

\* C29: for a numeric array, countSwaps(original, sortNumericArray(original))
\* is the number of swaps the sort performed (duplicates included), is 0
\* when the input is already in the requested order, and is at most n-1.
C29_SwapsCounted ==
    (spc = "done" /\ sEntry = "sortNumericArray") =>
        /\ countSwaps(sOrig, sArr) = sSwaps
        /\ NumbersInOrder(sOrig, sAsc) => countSwaps(sOrig, sArr) = 0
        /\ Len(sOrig) >= 1 => countSwaps(sOrig, sArr) <= Len(sOrig) - 1
        /\ sStats # NoStats => sStats.swaps = sSwaps

C29_Witness ==
    /\ spc = "done" /\ sEntry = "sortNumericArray" /\ sAsc
    /\ sOrig = <<Num(90), Num(55), Num(55)>>
    /\ sSwaps = 2 /\ sStats # NoStats /\ sStats.swaps = 2

\* The three names, and the number each one ends with.
Test1 == Str(<<"T", "e", "s", "t", " ", "1">>)
Test2 == Str(<<"T", "e", "s", "t", " ", "2">>)
Test10 == Str(<<"T", "e", "s", "t", " ", "1", "0">>)
NameNumber(name) == IF name = Test1 THEN 1 ELSE IF name = Test2 THEN 2 ELSE 10

Keys(seq) == [k \in 1..Len(seq) |-> KeyAt(seq, k)]

\* C24: an ascending field sort over strings compares embedded numbers by
\* value, not character by character: 'Test 1', 'Test 10', 'Test 2' is
\* sorted to 'Test 1', 'Test 2', 'Test 10'.
C24_NumericAwareStrings ==
    (spc = "done" /\ sEntry = "sortTableData" /\ sBy = NamePath /\ sAsc) =>
        /\ \A k \in 1..(Len(sArr) - 1) :
               NameNumber(KeyAt(sArr, k)) <= NameNumber(KeyAt(sArr, k + 1))
        /\ Keys(sOrig) = <<Test1, Test10, Test2>> =>
               Keys(sArr) = <<Test1, Test2, Test10>>

C24_Witness ==
    /\ spc = "done" /\ sEntry = "sortTableData" /\ sBy = NamePath /\ sAsc
    /\ Keys(sOrig) = <<Test1, Test10, Test2>>
    /\ Keys(sArr) = <<Test1, Test2, Test10>>

\* Following the segments of a path from v: whether a segment had to be
\* read from null or undefined, and the value at the end otherwise.
RECURSIVE Follow(_, _)
Follow(v, segs) ==
    IF segs = <<>> THEN [missing |-> FALSE, v |-> v]
    ELSE IF Absent(v) THEN [missing |-> TRUE, v |-> v]
    ELSE Follow((IF v.t = "obj" /\ Head(segs) \in DOMAIN v.f
                 THEN v.f[Head(segs)] ELSE Undef),
                Tail(segs))

\* C22: getValue(record, path) follows a dotted path segment by segment and
\* returns the value at its end; when the record, the path or an
\* intermediate segment is null or undefined it returns an absent value and
\* raises no error.
C22_GetValueFollowsPath ==
    (cFn = "getValue" /\ cDone) =>
        /\ cRet # TypeError
        /\ (Absent(cArgA) \/ Absent(cArgB)) => Absent(cRet)
        /\ (cArgA.t = "obj" /\ cArgB.t = "str" /\ cArgB.s # <<>>) =>
               LET end == Follow(cArgA, Split(cArgB)) IN
               IF end.missing THEN Absent(cRet) ELSE cRet = end.v

C22_Witness ==
    /\ cFn = "getValue" /\ cDone
    /\ cArgA = Obj([student |-> JsNull])
    /\ cArgB = Str(<<"student", ".", "name", ".", "first">>)
    /\ cRet = JsNull

\* C23: compare(a, b) returns 0 when both values are absent, a positive
\* number when only a is, a negative number when only b is, and for two
\* numbers a result with the sign of a - b.
C23_CompareAbsentGreatest ==
    (cFn = "compare" /\ cDone) =>
        /\ (Absent(cArgA) /\ Absent(cArgB)) => cRet.n = 0
        /\ (Absent(cArgA) /\ ~Absent(cArgB)) => cRet.n > 0
        /\ (~Absent(cArgA) /\ Absent(cArgB)) => cRet.n < 0
        /\ (cArgA.t = "num" /\ cArgB.t = "num") =>
               /\ cRet.n < 0 <=> cArgA.n < cArgB.n
               /\ cRet.n = 0 <=> cArgA.n = cArgB.n
               /\ cRet.n > 0 <=> cArgA.n > cArgB.n

C23_Witness ==
    /\ cFn = "compare" /\ cDone
    /\ cArgA = Undef /\ cArgB = Num(90) /\ cRet.n > 0

\* C25, as claimed: getSortingStats returns arraySize = the length of
\* original, the fixed timeComplexity label "O(n^2)" and the fixed
\* spaceComplexity label "O(1)".
C25_FixedLabels ==
    sStats # NoStats =>
        /\ sStats.arraySize = Len(sInput)
        /\ sStats.timeComplexity = <<"O(n^2)">>
        /\ sStats.spaceComplexity = "O(1)"

\* C25, amended: arraySize is the length of original, spaceComplexity is
\* the fixed "O(1)", and timeComplexity is "O(n^2) where n = " followed by
\* that length, so it differs from one array size to another.
C25_LabelCarriesSize ==
    sStats # NoStats =>
        /\ sStats.arraySize = Len(sInput)
        /\ Len(sStats.timeComplexity) = 2
        /\ sStats.timeComplexity[1] = "O(n^2) where n = "
        /\ sStats.timeComplexity[2] = sStats.arraySize
        /\ sStats.spaceComplexity = "O(1)"

C25_Witness ==
    /\ sStats # NoStats /\ sInput = TestNumbers /\ ~sAsc
    /\ sStats.arraySize = 7
    /\ sStats.timeComplexity = <<"O(n^2) where n = ", 7>>

\* The key the entry point called sorts the k-th element of seq by.
ElemKey(seq, k) ==
    IF sEntry = "sortNumericArray" THEN seq[k] ELSE getValue(seq[k], sBy)

AllNumbers(seq) == \A k \in 1..Len(seq) : KeyAt(seq, k).t = "num"

\* C26: on records whose field values are all numbers, sortStudentsByMarks
\* and sortTableData return the same sequence of records, and its field
\* values are what sortNumericArray returns for the input's field values.
C26_SameAlgorithm ==
    (spc = "done" /\ sEntry \in {"sortStudentsByMarks", "sortTableData"}
        /\ sBy = MarkPath /\ AllNumbers(sOrig)) =>
        /\ sArr = SortResult("sortStudentsByMarks", sOrig, sBy, sAsc)
        /\ sArr = SortResult("sortTableData", sOrig, sBy, sAsc)
        /\ Keys(sArr) = SortResult("sortNumericArray", Keys(sOrig), Undef, sAsc)

C26_Witness ==
    /\ spc = "done" /\ sEntry = "sortTableData" /\ sBy = MarkPath /\ ~sAsc
    /\ Keys(sOrig) = <<Num(55), Num(90), Num(55)>>
    /\ Keys(sArr) = <<Num(90), Num(55), Num(55)>>
    /\ sArr = SortResult("sortStudentsByMarks", sOrig, sBy, sAsc)

\* Every key of seq is present, and x may stand before y.
AllPresent(seq) == \A k \in 1..Len(seq) : ~Absent(ElemKey(seq, k))
InOrder(x, y) == IF sAsc THEN compare(x, y) <= 0 ELSE compare(x, y) >= 0

\* How many boundary iterations are complete.
Completed ==
    IF spc = "done" THEN (IF Len(sArr) = 0 THEN 0 ELSE Len(sArr) - 1)
    ELSE IF spc \in {"outer", "inner", "swap"} THEN si
    ELSE 0

\* The positions of the complete iterations hold elements that may stand
\* before every later element.
PrefixSettled ==
    \A p \in 1..Completed : \A q \in (p + 1)..Len(sArr) :
        InOrder(ElemKey(sArr, p), ElemKey(sArr, q))

\* A step of a sort starts with the complete positions settled, and a step
\* of the loops leaves them as they are.
C28_Step ==
    (sEntry # "none" /\ ~sNull /\ AllPresent(sOrig)) =>
        /\ PrefixSettled
        /\ spc \in {"outer", "inner", "swap"} =>
               \A p \in 1..Completed : sArr'[p] = sArr[p]

\* C28: in a sort of an input without absent values, once the boundary
\* iteration for index i is complete, positions 0..i hold elements that
\* are <= (ascending) or >= (descending) every later element, no later
\* step changes them, and after the last iteration the whole is ordered.
C28_PrefixInvariant == [][C28_Step]_vars

C28_Witness ==
    /\ spc = "outer" /\ si = 3 /\ sEntry = "sortNumericArray" /\ sAsc
    /\ sOrig = TestNumbers
    /\ Numbers(sArr) = <<11, 12, 22, 34, 25, 64, 90>>

\* C30: every operation runs to completion: a sort call on an array returns,
\* after at most n-1 boundary iterations, and in every list state a walk
\* along the next pointers from head ends after at most size nodes, which
\* bounds the loops of add, remove, removeAt, get, contains and toArray.
C30_RunsToCompletion ==
    /\ [](Len(Chain(heap, head, size + 1)) <= size)
    /\ []((sEntry # "none" /\ Len(sArr) >= 1) => si <= Len(sArr) - 1)
    /\ []((sEntry # "none" /\ Len(sArr) = 0) => si = 0)
    /\ (sEntry # "none" /\ ~sNull) ~> (spc = "done")

C30_Witness ==
    /\ spc = "done" /\ sEntry = "sortStudentsByMarks" /\ ~sAsc
    /\ Len(sArr) = 3 /\ si = 2 /\ sSwaps = 2

====
